---- MODULE Spec2Model ----
(***************************************************************************)
(* A model of ford/utils.py: the delimiter-aware scanners (get_parens,     *)
(* paren_split, quote_split), the macro table (register_macro,             *)
(* sub_macros), link resolution (sub_links.convert_link) and the external  *)
(* interchange (external, obj2dict, dict2obj).                             *)
(*                                                                         *)
(* A Python str is a sequence of one-character strings.  A call's outcome  *)
(* is a record: [tag |-> "ret", val |-> v] for a returned value and        *)
(* [tag |-> "raise", exc |-> e] for a raised exception.                    *)
(***************************************************************************)
EXTENDS Integers, Sequences, FiniteSets, TLC

VARIABLES
    \* the scanners: the arguments of the call made and its outcome
    line, sep, retlevel, retblevel, scanOp, scanResult,
    \* _MACRO_DICT, as the list of its (key, value) items in insertion order
    MACRO_DICT,
    \* the last macro call: its name, its argument and its outcome
    macroOp, macroArg, macroResult,
    \* history: the table before the last call, and for every key the value
    \* of its first registration that succeeded
    dictBefore, firstReg,
    \* the project index convert_link searches, the link match it was called
    \* on, the text it returned and the lines it printed
    project, linkOp, match, linkOut, linkLog,
    \* external(): project.modules and project.external, the files written,
    \* the proxies made (extHeap, in order of creation) and the project lists
    \* that hold them (extLists, by index into extHeap), the lines printed,
    \* where the call stands and the exception it ended with
    modules, external, files, extHeap, extLists, extLog, pcExt, srcIdx, extExc,
    \* history: for each source gone through, what its fetch gave and what
    \* the source added
    imported

scanVars == <<line, sep, retlevel, retblevel, scanOp, scanResult>>
macroVars == <<MACRO_DICT, macroOp, macroArg, macroResult, dictBefore, firstReg>>

linkVars == <<project, linkOp, match, linkOut, linkLog>>

extVars == <<modules, external, files, extHeap, extLists, extLog, pcExt, srcIdx, extExc,
             imported>>

vars == <<scanVars, macroVars, linkVars, extVars>>

Ret(v) == [tag |-> "ret", val |-> v]
Raise(e) == [tag |-> "raise", exc |-> e]
NoResult == [tag |-> "none"]

(***************************************************************************)
(* Bounds of the model.                                                    *)
(***************************************************************************)
MaxLen == 4
MaxLevel == 2
MaxMacros == 2
MaxText == 4
MaxPerCollection == 1
MaxModules == 1
MaxSources == 2

(***************************************************************************)
(* Strings.                                                                *)
(***************************************************************************)
RECURSIVE SeqsUpTo(_, _)
SeqsUpTo(S, n) ==
    IF n = 0 THEN {<<>>}
    ELSE LET shorter == SeqsUpTo(S, n - 1)
         IN  shorter \cup {Append(s, c) : s \in {t \in shorter : Len(t) = n - 1}, c \in S}

Slice(s, from, to) == SubSeq(s, from + 1, to)

\* str.isalpha() on the characters the model uses
isalpha(char) == char \in {"a", "b", "c", "f", "g", "x", "y"}

(***************************************************************************)
(* get_parens (utils.py 62-92)                                             *)
(***************************************************************************)
\* the fall-through after the loop: the input is exhausted
get_parens_noraise(level, blevel, parenstr, rl, rb) == Ret(parenstr)

get_parens_exhausted(level, blevel, parenstr, rl, rb) ==
    IF level = rl /\ blevel = rb THEN Ret(parenstr) ELSE Raise("RuntimeError")

RECURSIVE get_parens_loop(_, _, _, _, _, _, _)
get_parens_loop(ln, i, level, blevel, parenstr, rl, rb) ==
    IF i > Len(ln) THEN get_parens_exhausted(level, blevel, parenstr, rl, rb)
    ELSE LET char == ln[i] IN
         IF char = "(" THEN
             get_parens_loop(ln, i + 1, level + 1, blevel, Append(parenstr, char), rl, rb)
         ELSE IF char = ")" THEN
             get_parens_loop(ln, i + 1, level - 1, blevel, Append(parenstr, char), rl, rb)
         ELSE IF char = "[" THEN
             get_parens_loop(ln, i + 1, level, blevel + 1, Append(parenstr, char), rl, rb)
         ELSE IF char = "]" THEN
             get_parens_loop(ln, i + 1, level, blevel - 1, Append(parenstr, char), rl, rb)
         ELSE IF (isalpha(char) \/ char \in {"_", ":", ",", " "})
                 /\ level = rl /\ blevel = rb THEN
             Ret(parenstr)
         ELSE get_parens_loop(ln, i + 1, level, blevel, Append(parenstr, char), rl, rb)

get_parens(ln, rl, rb) ==
    IF ln = <<>> THEN Ret(ln)
    ELSE get_parens_loop(ln, 1, 0, 0, <<>>, rl, rb)

(***************************************************************************)
(* paren_split (utils.py 128-151)                                          *)
(***************************************************************************)
\* the segment start after a separator found at 0-based index i
paren_split_left_off(i) == i

paren_split_left(i) == i + 1

RECURSIVE paren_split_loop(_, _, _, _, _, _, _)
paren_split_loop(sp, string, i, level, blevel, left, retlist) ==
    IF i >= Len(string) THEN Append(retlist, Slice(string, left, Len(string)))
    ELSE LET char == string[i + 1] IN
         IF char = "(" THEN
             paren_split_loop(sp, string, i + 1, level + 1, blevel, left, retlist)
         ELSE IF char = ")" THEN
             paren_split_loop(sp, string, i + 1, level - 1, blevel, left, retlist)
         ELSE IF char = "[" THEN
             paren_split_loop(sp, string, i + 1, level, blevel + 1, left, retlist)
         ELSE IF char = "]" THEN
             paren_split_loop(sp, string, i + 1, level, blevel - 1, left, retlist)
         ELSE IF char = sp /\ level = 0 /\ blevel = 0 THEN
             paren_split_loop(sp, string, i + 1, level, blevel, paren_split_left(i),
                              Append(retlist, Slice(string, left, i)))
         ELSE paren_split_loop(sp, string, i + 1, level, blevel, left, retlist)

paren_split(sp, string) ==
    IF Len(sp) # 1 THEN Raise("ValueError")
    ELSE Ret(paren_split_loop(sp[1], string, 0, 0, 0, 0, <<>>))

(***************************************************************************)
(* quote_split (utils.py 154-185).  The flag the code names squote is the  *)
(* one a double quote toggles, and dquote the one a single quote toggles.  *)
(***************************************************************************)
RECURSIVE quote_split_loop(_, _, _, _, _, _, _)
quote_split_loop(sp, string, i, squote, dquote, left, retlist) ==
    IF i >= Len(string) THEN Append(retlist, Slice(string, left, Len(string)))
    ELSE LET char == string[i + 1] IN
         IF char = "\"" /\ ~dquote THEN
             IF ~squote THEN
                 quote_split_loop(sp, string, i + 1, TRUE, dquote, left, retlist)
             ELSE IF (i + 1) < Len(string) /\ string[i + 2] = "\"" THEN
                 quote_split_loop(sp, string, i + 2, squote, dquote, left, retlist)
             ELSE quote_split_loop(sp, string, i + 1, FALSE, dquote, left, retlist)
         ELSE IF char = "'" /\ ~squote THEN
             IF ~dquote THEN
                 quote_split_loop(sp, string, i + 1, squote, TRUE, left, retlist)
             ELSE IF (i + 1) < Len(string) /\ string[i + 2] = "'" THEN
                 quote_split_loop(sp, string, i + 2, squote, dquote, left, retlist)
             ELSE quote_split_loop(sp, string, i + 1, squote, FALSE, left, retlist)
         ELSE IF char = sp /\ ~dquote /\ ~squote THEN
             quote_split_loop(sp, string, i + 1, squote, dquote, i + 1,
                              Append(retlist, Slice(string, left, i)))
         ELSE quote_split_loop(sp, string, i + 1, squote, dquote, left, retlist)

quote_split(sp, string) ==
    IF Len(sp) # 1 THEN Raise("ValueError")
    ELSE Ret(quote_split_loop(sp[1], string, 0, FALSE, FALSE, 0, <<>>))

(***************************************************************************)
(* The macro table: a dict, kept as its items in insertion order.          *)
(***************************************************************************)
Keys(dict) == {dict[i][1] : i \in 1..Len(dict)}
HasKey(dict, key) == key \in Keys(dict)
Lookup(dict, key) == dict[CHOOSE i \in 1..Len(dict) : dict[i][1] = key][2]

\* dict[key] = val: a new key goes last, an old key keeps its place
SetItem(dict, key, val) ==
    IF HasKey(dict, key)
    THEN [i \in 1..Len(dict) |-> IF dict[i][1] = key THEN <<key, val>> ELSE dict[i]]
    ELSE Append(dict, <<key, val>>)

\* str.strip(), of blanks
RECURSIVE strip(_)
strip(s) ==
    IF s = <<>> THEN s
    ELSE IF Head(s) = " " THEN strip(Tail(s))
    ELSE IF s[Len(s)] = " " THEN strip(SubSeq(s, 1, Len(s) - 1))
    ELSE s

\* string.split(c, 1) of a string that holds c
split_once(string, c) ==
    LET i == CHOOSE j \in 1..Len(string) :
                 string[j] = c /\ \A k \in 1..(j - 1) : string[k] # c
    IN  <<SubSeq(string, 1, i - 1), SubSeq(string, i + 1, Len(string))>>

(***************************************************************************)
(* register_macro (utils.py 327-356): the outcome and the table after it.  *)
(***************************************************************************)
\* the test that guards the table against a second, differing value
macro_conflict_never(dict, key, val) == FALSE

macro_conflict(dict, key, val) == HasKey(dict, key) /\ val # Lookup(dict, key)

macro_key(string) == <<"|">> \o strip(split_once(string, "=")[1]) \o <<"|">>
macro_val(string) == strip(split_once(string, "=")[2])

register_macro(string, dict) ==
    IF \A i \in 1..Len(string) : string[i] # "="
    THEN [res |-> Raise("RuntimeError"), dict |-> dict]
    ELSE LET key == macro_key(string)
             val == macro_val(string)
         IN  IF macro_conflict(dict, key, val)
             THEN [res |-> Raise("RuntimeError"), dict |-> dict]
             ELSE [res |-> Ret(<<val, key>>), dict |-> SetItem(dict, key, val)]

(***************************************************************************)
(* sub_macros (utils.py 359-366)                                           *)
(***************************************************************************)
\* str.replace(old, new) for a non-empty old (a bracketed key is never
\* empty): the occurrences are taken from the left and do not overlap
RECURSIVE str_replace(_, _, _)
str_replace(s, old, new) ==
    IF Len(s) < Len(old) THEN s
    ELSE IF SubSeq(s, 1, Len(old)) = old
         THEN new \o str_replace(SubSeq(s, Len(old) + 1, Len(s)), old, new)
         ELSE <<Head(s)>> \o str_replace(Tail(s), old, new)

\* one scan of the text that replaces each key where it stands and never
\* looks at the text it has put in
RECURSIVE sub_macros_one_pass(_, _)
sub_macros_one_pass(string, dict) ==
    IF string = <<>> THEN string
    ELSE LET hits == {i \in 1..Len(dict) :
                          /\ Len(dict[i][1]) <= Len(string)
                          /\ SubSeq(string, 1, Len(dict[i][1])) = dict[i][1]}
         IN  IF hits = {} THEN <<Head(string)>> \o sub_macros_one_pass(Tail(string), dict)
             ELSE LET i == CHOOSE j \in hits : \A k \in hits : j <= k
                  IN  dict[i][2] \o
                      sub_macros_one_pass(
                          SubSeq(string, Len(dict[i][1]) + 1, Len(string)), dict)

RECURSIVE sub_macros_loop(_, _, _)
sub_macros_loop(string, dict, i) ==
    IF i > Len(dict) THEN string
    ELSE sub_macros_loop(str_replace(string, dict[i][1], dict[i][2]), dict, i + 1)

sub_macros(string, dict) == sub_macros_loop(string, dict, 1)

(***************************************************************************)
(* The macro calls and their inputs.                                       *)
(***************************************************************************)
KeyParts == {<<"a">>, <<" ", "a", " ">>, <<"b">>}
ValParts == {<<"x">>, <<" ", "x", " ">>, <<"|", "b", "|">>, <<"x", "=", "y">>, <<>>}
MacroDefs == {k \o <<"=">> \o v : k \in KeyParts, v \in ValParts} \cup {<<"a">>, <<>>}
TextChars == {"|", "a", "b"}
MacroTexts == SeqsUpTo(TextChars, MaxText)

MacroInit ==
    /\ MACRO_DICT = <<>>
    /\ macroOp = "none"
    /\ macroArg = <<>>
    /\ macroResult = NoResult
    /\ dictBefore = <<>>
    /\ firstReg = <<>>

MacroIdle == MacroInit

\* a call of register_macro(string) that came out as out
Registered(string, out) ==
    /\ macroOp' = "register_macro"
    /\ macroArg' = string
    /\ macroResult' = out.res
    /\ dictBefore' = MACRO_DICT
    /\ MACRO_DICT' = out.dict
    /\ firstReg' = IF out.res.tag = "ret" /\ ~HasKey(firstReg, out.res.val[2])
                   THEN Append(firstReg, <<out.res.val[2], out.res.val[1]>>)
                   ELSE firstReg

RegisterMacro ==
    \E string \in MacroDefs :
        LET out == register_macro(string, MACRO_DICT) IN
        /\ out.res.tag = "ret" =>
              (HasKey(MACRO_DICT, out.res.val[2]) \/ Len(MACRO_DICT) < MaxMacros)
        /\ Registered(string, out)
        /\ UNCHANGED <<scanVars, linkVars, extVars>>

\* A substitution leaves the table as it is: what a second one in a row
\* reaches, the first reaches as well.
SubMacros ==
    \E string \in MacroTexts :
        /\ macroOp # "sub_macros"
        /\ macroOp' = "sub_macros"
        /\ macroArg' = string
        /\ macroResult' = Ret(sub_macros(string, MACRO_DICT))
        /\ dictBefore' = MACRO_DICT
        /\ UNCHANGED <<MACRO_DICT, firstReg, scanVars, linkVars, extVars>>

MacroNext == RegisterMacro \/ SubMacros

(***************************************************************************)
(* Reference notions for the macro properties.                             *)
(***************************************************************************)
HasEq(string) == \E i \in 1..Len(string) : string[i] = "="

\* the places of s where old stands
Occurrences(s, old) ==
    {p \in 1..(Len(s) - Len(old) + 1) : SubSeq(s, p, p + Len(old) - 1) = old}

\* the occurrences a replacement takes: each one that no taken occurrence
\* to its left overlaps
Taken(s, old) ==
    CHOOSE P \in SUBSET Occurrences(s, old) :
        \A p \in Occurrences(s, old) :
            p \in P <=> \A q \in P : q < p => q + Len(old) <= p

RECURSIVE Assemble(_, _, _, _, _)
Assemble(s, P, n, new, i) ==
    IF i > Len(s) THEN <<>>
    ELSE IF i \in P THEN new \o Assemble(s, P, n, new, i + n)
    ELSE <<s[i]>> \o Assemble(s, P, n, new, i + 1)

Replaced(s, old, new) == Assemble(s, Taken(s, old), Len(old), new, 1)

RECURSIVE InRegistrationOrder(_, _, _)
InRegistrationOrder(s, dict, i) ==
    IF i > Len(dict) THEN s
    ELSE InRegistrationOrder(Replaced(s, dict[i][1], dict[i][2]), dict, i + 1)

\* no two occurrences of registered keys in s share a character
NoOverlap(s, dict) ==
    \A i, j \in 1..Len(dict) :
        \A p \in Occurrences(s, dict[i][1]), q \in Occurrences(s, dict[j][1]) :
            (p < q \/ (p = q /\ i # j)) => p + Len(dict[i][1]) <= q

SubstitutionNeverRescans ==
    (macroOp = "sub_macros" /\ NoOverlap(macroArg, MACRO_DICT)) =>
        macroResult = Ret(sub_macros_one_pass(macroArg, MACRO_DICT))

\* C10 amended: sub_macros replaces the keys one after the other in
\* registration order, each time every occurrence (taken from the left,
\* not overlapping) of the key in the text produced so far, so that a value
\* put in for one key is scanned again for every key registered after it.
SubstitutionInRegistrationOrder ==
    macroOp = "sub_macros" =>
        macroResult = Ret(InRegistrationOrder(macroArg, MACRO_DICT, 1))

WitnessRescan ==
    /\ macroOp = "sub_macros"
    /\ macroArg = <<"|", "a", "|">>
    /\ MACRO_DICT = << <<(<<"|", "a", "|">>), <<"|", "b", "|">>>>,
                       <<(<<"|", "b", "|">>), <<"x">>>> >>
    /\ macroResult = Ret(<<"x">>)

(***************************************************************************)
(* sub_links (utils.py 188-324).  In this part a str is a sequence of      *)
(* chunks (a name, a url, a piece of markup), joined by \o.  A regex group *)
(* that did not take part in the match (None) is the empty chunk "", which *)
(* no \w+ group can be.  An entity is a record of its name, url, obj and   *)
(* attrs, the child collections it possesses (hasattr) by attribute name;  *)
(* a child is a record of its name and anchor, and the constructor         *)
(* attribute holds <<>> (None) or one child.                               *)
(***************************************************************************)
None == ""

LINK_TYPES == <<
    <<"module", "modules">>,
    <<"extmodule", "extModules">>,
    <<"type", "types">>,
    <<"exttype", "extTypes">>,
    <<"procedure", "procedures">>,
    <<"extprocedure", "extProcedures">>,
    <<"subroutine", "procedures">>,
    <<"extsubroutine", "extProcedures">>,
    <<"function", "procedures">>,
    <<"extfunction", "extProcedures">>,
    <<"proc", "procedures">>,
    <<"extproc", "extProcedures">>,
    <<"file", "allfiles">>,
    <<"interface", "absinterfaces">>,
    <<"extinterface", "extInterfaces">>,
    <<"absinterface", "absinterfaces">>,
    <<"extabsinterface", "extInterfaces">>,
    <<"program", "programs">>,
    <<"block", "blockdata">> >>

SUBLINK_TYPES == <<
    <<"variable", "variables">>,
    <<"type", "types">>,
    <<"constructor", "constructor">>,
    <<"interface", "interfaces">>,
    <<"absinterface", "absinterfaces">>,
    <<"subroutine", "subroutines">>,
    <<"function", "functions">>,
    <<"final", "finalprocs">>,
    <<"bound", "boundprocs">>,
    <<"modproc", "modprocs">>,
    <<"common", "common">> >>

\* str.lower() on the names and classifiers the model uses
lower(s) ==
    CASE s \in {"MyType", "MYTYPE"} -> "mytype"
      [] s \in {"MyVar", "MYVAR"} -> "myvar"
      [] s = "Type" -> "type"
      [] s = "Bound" -> "bound"
      [] s = "Function" -> "function"
      [] s = "Subroutine" -> "subroutine"
      [] s = "Interface" -> "interface"
      [] OTHER -> s

\* match.group(): the markup the regex matched
group0(m) ==
    <<"[[", m.g1>>
    \o (IF m.g2 # None THEN <<"(", m.g2, ")">> ELSE <<>>)
    \o (IF m.g3 # None
        THEN <<":", m.g3>> \o (IF m.g4 # None THEN <<"(", m.g4, ")">> ELSE <<>>)
        ELSE <<>>)
    \o <<"]]">>

\* ERR.format(match.group(), reason): one printed line
Warning(m, kind, args) == [link |-> group0(m), kind |-> kind, args |-> args]

\* the list a loop over table.items() that extends by coll[val] builds
RECURSIVE extend_all(_, _, _)
extend_all(table, coll, i) ==
    IF i > Len(table) THEN <<>>
    ELSE (IF table[i][2] \in DOMAIN coll THEN coll[table[i][2]] ELSE <<>>)
         \o extend_all(table, coll, i + 1)

\* for obj in searchlist: if name.lower() == obj.name.lower(): ... break
\* the index of the entity the loop breaks on, 0 when it runs to its else
first_match_exact(searchlist, name) ==
    IF \E i \in 1..Len(searchlist) : name = searchlist[i].name
    THEN CHOOSE i \in 1..Len(searchlist) :
             /\ name = searchlist[i].name
             /\ \A j \in 1..(i - 1) : name # searchlist[j].name
    ELSE 0

first_match(searchlist, name) ==
    IF \E i \in 1..Len(searchlist) : lower(name) = lower(searchlist[i].name)
    THEN CHOOSE i \in 1..Len(searchlist) :
             /\ lower(name) = lower(searchlist[i].name)
             /\ \A j \in 1..(i - 1) : lower(name) # lower(searchlist[j].name)
    ELSE 0

\* print(ERR.format(...)); return match.group()
abort_match_substituted(m, kind, args) ==
    [out |-> <<"<a>", m.g1, "</a>">>, log |-> <<Warning(m, kind, args)>>]

abort_match(m, kind, args) == [out |-> group0(m), log |-> <<Warning(m, kind, args)>>]

\* the two return statements that end convert_link
link_text_always_href(found, url, name) == <<"<a href=\"">> \o url \o <<"\">", name, "</a>">>

link_text(found, url, name) ==
    IF found THEN <<"<a href=\"">> \o url \o <<"\">", name, "</a>">>
    ELSE <<"<a>", name, "</a>">>

TableKeys(table) == {table[i][1] : i \in 1..Len(table)}
TableGet(table, key) == table[CHOOSE i \in 1..Len(table) : table[i][1] = key][2]

\* the second level of convert_link, entered when found and match.group(3)
sub_level(m, item) ==
    LET search(searchlist) ==
        LET i == first_match(searchlist, m.g3) IN
            IF i # 0
            THEN [out |-> link_text(TRUE, <<item.url, "#", searchlist[i].anchor>>,
                                    searchlist[i].name),
                  log |-> <<>>]
            ELSE [out |-> link_text(TRUE, <<item.url>>, item.name),
                  log |-> <<Warning(m, "not found in, linking to page instead",
                                    <<m.g3, item.name, item.name>>)>>]
    IN  IF m.g4 = None THEN search(extend_all(SUBLINK_TYPES, item.attrs, 1))
        ELSE IF lower(m.g4) \in TableKeys(SUBLINK_TYPES) THEN
            IF TableGet(SUBLINK_TYPES, lower(m.g4)) \in DOMAIN item.attrs
            THEN search(item.attrs[TableGet(SUBLINK_TYPES, lower(m.g4))])
            ELSE abort_match(m, "can not be contained in", <<m.g4, item.obj>>)
        ELSE abort_match(m, "Unrecognized classification", <<m.g2>>)

convert_link(m, proj) ==
    LET resolve(searchlist) ==
            LET i == first_match(searchlist, m.g1) IN
            IF i = 0
            THEN [out |-> link_text(FALSE, <<"">>, m.g1),
                  log |-> <<Warning(m, "not found", <<m.g1>>)>>]
            ELSE IF m.g3 # None THEN sub_level(m, searchlist[i])
            ELSE [out |-> link_text(TRUE, <<searchlist[i].url>>, searchlist[i].name),
                  log |-> <<>>]
    IN  IF m.g2 = None THEN resolve(extend_all(LINK_TYPES, proj, 1))
        ELSE IF lower(m.g2) \in TableKeys(LINK_TYPES)
        THEN resolve(proj[TableGet(LINK_TYPES, lower(m.g2))])
        ELSE abort_match(m, "Unrecognized classification", <<m.g2>>)

(***************************************************************************)
(* The project indexes and the link matches convert_link is called on.     *)
(***************************************************************************)
Collections == {LINK_TYPES[i][2] : i \in 1..Len(LINK_TYPES)}

TypeEntity ==
    [name |-> "MyType", url |-> "type/mytype.html", obj |-> "type",
     attrs |-> [variables |-> << [name |-> "MyVar", anchor |-> "variable-myvar"],
                                 [name |-> "myvar", anchor |-> "variable-myvar~2"] >>,
                boundprocs |-> << [name |-> "myvar", anchor |-> "boundprocedure-myvar"],
                                  [name |-> "mytype", anchor |-> "boundprocedure-mytype"] >>,
                constructor |-> << [name |-> "mytype", anchor |-> "interface-mytype"] >>]]

ModuleEntity ==
    [name |-> "mytype", url |-> "module/mytype.html", obj |-> "module",
     attrs |-> [variables |-> << [name |-> "other", anchor |-> "variable-other"] >>,
                types |-> << [name |-> "MYVAR", anchor |-> "type-myvar"] >>,
                functions |-> << [name |-> "myvar", anchor |-> "proc-myvar"] >>]]

OtherEntity ==
    [name |-> "other", url |-> "type/other.html", obj |-> "type",
     attrs |-> [variables |-> <<>>,
                boundprocs |-> << [name |-> "MyVar", anchor |-> "boundprocedure-myvar"] >>,
                constructor |-> <<>>]]

EntityPool == {TypeEntity, ModuleEntity, OtherEntity}

NoRepeat(S, n) == {q \in SeqsUpTo(S, n) : \A i, j \in 1..Len(q) : q[i] = q[j] => i = j}

EmptyProject == [c \in Collections |-> <<>>]

Projects ==
    {[c \in Collections |->
         CASE c = "modules" -> ms [] c = "types" -> ts [] c = "procedures" -> ps
           [] OTHER -> <<>>] :
        ms \in NoRepeat(EntityPool, MaxPerCollection),
        ts \in NoRepeat(EntityPool, MaxPerCollection),
        ps \in NoRepeat(EntityPool, MaxPerCollection)}

Matches ==
    {[g1 |-> a, g2 |-> b, g3 |-> c, g4 |-> d] :
        a \in {"MYTYPE", "other", "ghost"},
        b \in {None, "Type", "module", "bogus"},
        c \in {None, "MYVAR", "mytype", "nosuch"},
        d \in {None, "variable", "Bound", "constructor", "bogus"}}

NoMatch == [g1 |-> None, g2 |-> None, g3 |-> None, g4 |-> None]

LinkInit ==
    /\ project \in Projects
    /\ linkOp = "none"
    /\ match = NoMatch
    /\ linkOut = <<>>
    /\ linkLog = <<>>

LinkIdle ==
    /\ project = EmptyProject
    /\ linkOp = "none"
    /\ match = NoMatch
    /\ linkOut = <<>>
    /\ linkLog = <<>>

\* LINK_RE.sub calls convert_link on a match; group 4 takes part only with
\* group 3.  The call reads the index and the match alone, so one call on
\* each index and match shows all there is.
ConvertLink ==
    \E m \in Matches :
        /\ linkOp = "none"
        /\ m.g3 = None => m.g4 = None
        /\ LET r == convert_link(m, project) IN
              /\ linkOut' = r.out
              /\ linkLog' = r.log
        /\ match' = m
        /\ linkOp' = "convert_link"
        /\ UNCHANGED <<project, scanVars, macroVars, extVars>>

LinkNext == ConvertLink

(***************************************************************************)
(* external (utils.py 369-516).  An object is a record of its attributes   *)
(* (hasattr is membership in its DOMAIN); a JSON object is a record of its *)
(* keys.  An attribute or JSON value that the code tells apart with        *)
(* isinstance carries its kind: a list of items, a dict of (key, item)     *)
(* pairs in order, or a scalar.  A url or path is a sequence of chunks.    *)
(***************************************************************************)
List(items) == [kind |-> "list", items |-> items]
Dict(items) == [kind |-> "dict", items |-> items]
\* a scalar attribute, with the text str() gives for it
Scalar(text) == [kind |-> "scalar", str |-> text]
\* a string in a JSON document
Str(text) == [kind |-> "str", val |-> text]
\* None, and JSON's null
Null == [null |-> TRUE]

ATTRIBUTES == <<
    "pub_procs", "pub_absints", "pub_types", "pub_vars", "functions", "subroutines",
    "interfaces", "absinterfaces", "types", "variables", "boundprocs", "vartype",
    "permission", "generic" >>

ENTITIES == [
    module |-> "ExternalModule",
    interface |-> "ExternalInterface",
    type |-> "ExternalType",
    variable |-> "ExternalVariable",
    function |-> "ExternalFunction",
    subroutine |-> "ExternalSubroutine",
    boundprocedure |-> "ExternalBoundProcedure" ]

\* extObj._project_list: the project collection a proxy class goes into
project_list(cls) ==
    CASE cls = "ExternalModule" -> "extModules"
      [] cls = "ExternalInterface" -> "extInterfaces"
      [] cls = "ExternalType" -> "extTypes"
      [] cls = "ExternalVariable" -> "extVariables"
      [] cls = "ExternalFunction" -> "extProcedures"
      [] cls = "ExternalSubroutine" -> "extProcedures"
      [] cls = "ExternalBoundProcedure" -> "extBoundProcs"

ProjectLists ==
    {"extModules", "extInterfaces", "extTypes", "extVariables", "extProcedures",
     "extBoundProcs"}

\* isinstance(intObj.extends, FortranType)
IsFortranType(v) == "obj" \in DOMAIN v /\ v.obj = "type"

\* obj2dict (utils.py 403-433)
RECURSIVE obj2dict(_), obj2dict_attributes(_, _)
obj2dict(intObj) ==
    IF "external_url" \in DOMAIN intObj THEN Null
    ELSE [name |-> intObj.name, external_url |-> intObj.url, obj |-> intObj.obj]
         @@ (IF "proctype" \in DOMAIN intObj THEN "proctype" :> intObj.proctype ELSE <<>>)
         @@ (IF "extends" \in DOMAIN intObj
             THEN "extends" :> (IF IsFortranType(intObj.extends)
                                THEN obj2dict(intObj.extends)
                                ELSE intObj.extends)
             ELSE <<>>)
         @@ obj2dict_attributes(intObj, 1)

obj2dict_attributes(intObj, k) ==
    IF k > Len(ATTRIBUTES) THEN <<>>
    ELSE LET attrib == ATTRIBUTES[k]
             attribute == intObj[attrib]
         IN  (IF attrib \notin DOMAIN intObj THEN <<>>
              ELSE IF attribute.kind = "list"
              THEN attrib :> List([i \in 1..Len(attribute.items) |->
                                      obj2dict(attribute.items[i])])
              ELSE IF attribute.kind = "dict"
              THEN attrib :> Dict([i \in 1..Len(attribute.items) |->
                                      <<attribute.items[i][1],
                                        obj2dict(attribute.items[i][2])>>])
              ELSE attrib :> Str(attribute.str))
             @@ obj2dict_attributes(intObj, k + 1)

\* json.dumps and json.loads: a document is the text of a value, and a tree
\* of objects, lists, strings and nulls reads back as it was written
json_dumps(value) == [json |-> value]
json_loads(text) == text.json

\* extDict["external_url"].split("/", 1)[-1], on a path of segments
after_first_slash(url) == IF Len(url) > 1 THEN Tail(url) ELSE url

\* the tag that says which proxy class a record is for
entity_tag_obj(extDict) == lower(extDict.obj)

entity_tag(extDict) ==
    lower(IF "proctype" \in DOMAIN extDict THEN extDict.proctype ELSE extDict.obj)

\* the state dict2obj works on: the proxies made so far, the project lists
\* and the exception under way ("" for none)
SetAttr(st, id, key, value) ==
    [st EXCEPT !.heap[id].attrs = (key :> value) @@ @]

\* dict2obj (utils.py 443-487): the state after the call and the proxy made
RECURSIVE dict2obj(_, _, _, _, _), dict2obj_items(_, _, _, _, _, _),
          dict2obj_pairs(_, _, _, _, _, _), dict2obj_attributes(_, _, _, _, _, _)
dict2obj(extDict, url, parent, remote, st) ==
    LET external_url ==
            IF extDict.external_url # <<>>
            THEN url \o after_first_slash(extDict.external_url)
            ELSE extDict.external_url
        obj_type == entity_tag(extDict)
        id == Len(st.heap) + 1
    IN  IF obj_type \notin DOMAIN ENTITIES
        THEN [st |-> [st EXCEPT !.exc = "KeyError"], id |-> 0]
        ELSE LET extObj == [cls |-> ENTITIES[obj_type], name |-> extDict.name,
                            external_url |-> external_url, parent |-> parent,
                            attrs |-> <<>>]
                 st1 == [st EXCEPT !.heap = Append(@, extObj),
                                   !.lists[project_list(extObj.cls)] = Append(@, id)]
             IN  IF obj_type = "interface" /\ "proctype" \notin DOMAIN extDict
                 THEN [st |-> [st1 EXCEPT !.exc = "KeyError"], id |-> id]
                 ELSE IF obj_type = "type" /\ "extends" \notin DOMAIN extDict
                 THEN [st |-> [st1 EXCEPT !.exc = "KeyError"], id |-> id]
                 ELSE LET st2 ==
                              IF obj_type = "interface"
                              THEN SetAttr(st1, id, "proctype", extDict.proctype)
                              ELSE IF obj_type = "type"
                              THEN SetAttr(st1, id, "extends", extDict.extends)
                              ELSE st1
                      IN  [st |-> dict2obj_attributes(extDict, url, id, remote, st2, 1),
                           id |-> id]

\* [dict2obj(item, url, extObj, remote) for item in extDict[key] if item]
dict2obj_items(items, url, parent, remote, st, tmpLs) ==
    IF st.exc # "" \/ items = <<>> THEN [st |-> st, ids |-> tmpLs]
    ELSE IF Head(items) = Null
    THEN dict2obj_items(Tail(items), url, parent, remote, st, tmpLs)
    ELSE LET r == dict2obj(Head(items), url, parent, remote, st)
         IN  dict2obj_items(Tail(items), url, parent, remote, r.st, Append(tmpLs, r.id))

\* {key2: dict2obj(item, url, extObj, remote) for key2, item in ... if item}
dict2obj_pairs(items, url, parent, remote, st, tmpDict) ==
    IF st.exc # "" \/ items = <<>> THEN [st |-> st, ids |-> tmpDict]
    ELSE IF Head(items)[2] = Null
    THEN dict2obj_pairs(Tail(items), url, parent, remote, st, tmpDict)
    ELSE LET r == dict2obj(Head(items)[2], url, parent, remote, st)
         IN  dict2obj_pairs(Tail(items), url, parent, remote, r.st,
                            Append(tmpDict, <<Head(items)[1], r.id>>))

\* for key in ATTRIBUTES: ... setattr(extObj, key, ...)
dict2obj_attributes(extDict, url, id, remote, st, k) ==
    IF st.exc # "" \/ k > Len(ATTRIBUTES) THEN st
    ELSE LET key == ATTRIBUTES[k] IN
         IF key \notin DOMAIN extDict
         THEN dict2obj_attributes(extDict, url, id, remote, st, k + 1)
         ELSE IF extDict[key].kind = "list"
         THEN LET r == dict2obj_items(extDict[key].items, url, id, remote, st, <<>>)
              IN  IF r.st.exc # "" THEN r.st
                  ELSE dict2obj_attributes(extDict, url, id, remote,
                                           SetAttr(r.st, id, key, List(r.ids)), k + 1)
         ELSE IF extDict[key].kind = "dict"
         THEN LET r == dict2obj_pairs(extDict[key].items, url, id, remote, st, <<>>)
              IN  IF r.st.exc # "" THEN r.st
                  ELSE dict2obj_attributes(extDict, url, id, remote,
                                           SetAttr(r.st, id, key, Dict(r.ids)), k + 1)
         ELSE dict2obj_attributes(extDict, url, id, remote,
                                  SetAttr(st, id, key, extDict[key]), k + 1)

\* for extModule in extModules: dict2obj(extModule, url, remote=remote)
RECURSIVE import_modules(_, _, _, _)
import_modules(extModules, url, remote, st) ==
    IF st.exc # "" \/ extModules = <<>> THEN st
    ELSE import_modules(Tail(extModules), url, remote,
                        dict2obj(Head(extModules), url, 0, remote, st).st)

\* re.match("https?://", url)
is_remote(url) == url # <<>> /\ Head(url) \in {"http://", "https://"}

\* if url[-1] != "/": url = url + "/"
with_slash(url) == IF url[Len(url)] # "/" THEN Append(url, "/") ELSE url

\* pathlib.Path(url).resolve()
resolve(url) == IF url # <<>> /\ Head(url) = "/" THEN url ELSE <<"/", "cwd">> \o url

\* except (URLError, json.JSONDecodeError)
caught_url_error_only(error) == error = "URLError"

caught(error) == error \in {"URLError", "JSONDecodeError"}

(***************************************************************************)
(* The entity graphs a project exports and the sources it imports.  The    *)
(* entity classes are those of the data model: which attributes a kind of  *)
(* entity has, and that a module lists a public procedure or variable both *)
(* in its collection and in pub_procs or pub_vars, beside proxies of what  *)
(* it re-exports from an external module.                                  *)
(***************************************************************************)
VarX == [name |-> "x", url |-> <<".", "module", "m.html">>, obj |-> "variable",
         vartype |-> Scalar("integer"), permission |-> Scalar("public")]
VarY == [name |-> "y", url |-> <<".", "type", "t.html">>, obj |-> "variable",
         vartype |-> Scalar("real"), permission |-> Scalar("private")]
VarZ == [name |-> "z", url |-> <<".", "module", "p.html">>, obj |-> "variable",
         vartype |-> Scalar("integer"), permission |-> Scalar("public")]
FuncF == [name |-> "f", url |-> <<".", "proc", "f.html">>, obj |-> "proc",
          proctype |-> "Function", permission |-> Scalar("public"),
          variables |-> List(<<>>)]
FuncG == [name |-> "g", url |-> <<".", "proc", "g.html">>, obj |-> "proc",
          proctype |-> "Function", permission |-> Scalar("public"),
          variables |-> List(<<>>)]
SubS == [name |-> "s", url |-> <<".", "proc", "s.html">>, obj |-> "proc",
         proctype |-> "Subroutine", permission |-> Scalar("private")]
BoundP == [name |-> "bp", url |-> <<".", "type", "t.html">>, obj |-> "boundprocedure",
           permission |-> Scalar("public"), generic |-> Scalar("False")]
FinalQ == [name |-> "q", url |-> <<".", "type", "t.html">>, obj |-> "finalproc"]
TypeBase == [name |-> "base", url |-> <<".", "type", "base.html">>, obj |-> "type",
             extends |-> Null, permission |-> Scalar("public"),
             variables |-> List(<<>>), boundprocs |-> List(<<>>)]
TypeT == [name |-> "t", url |-> <<".", "type", "t.html">>, obj |-> "type",
          extends |-> TypeBase, permission |-> Scalar("public"),
          variables |-> List(<<VarY>>), boundprocs |-> List(<<BoundP>>),
          finalprocs |-> List(<<FinalQ>>)]
IfaceI == [name |-> "i", url |-> <<".", "interface", "i.html">>, obj |-> "interface",
           proctype |-> "Interface", permission |-> Scalar("public"),
           generic |-> Scalar("True")]
\* a proxy, made by an earlier import: it has external_url
ExtF == [name |-> "extf", url |-> <<"http://", "other.org", "/", "proc", "extf.html">>,
         external_url |-> <<"http://", "other.org", "/", "proc", "extf.html">>,
         obj |-> "proc", proctype |-> "Function"]

ModTree ==
    [name |-> "m", url |-> <<".", "module", "m.html">>, obj |-> "module",
     pub_procs |-> Dict(<<>>), pub_vars |-> Dict(<<>>),
     functions |-> List(<<FuncF>>), interfaces |-> List(<<IfaceI>>),
     types |-> List(<<TypeT>>), variables |-> List(<<VarX>>)]
ModPublic ==
    [name |-> "p", url |-> <<".", "module", "p.html">>, obj |-> "module",
     pub_procs |-> Dict(<< <<"g", FuncG>> >>), pub_vars |-> Dict(<< <<"z", VarZ>> >>),
     functions |-> List(<<FuncG>>), variables |-> List(<<VarZ>>)]
ModReexport ==
    [name |-> "r", url |-> <<".", "module", "r.html">>, obj |-> "module",
     pub_procs |-> Dict(<< <<"extf", ExtF>> >>), pub_vars |-> Dict(<<>>),
     subroutines |-> List(<<SubS>>)]

ModulePool == {ModTree, ModPublic, ModReexport}

\* documents another project serves: a well-formed one, and one that holds a
\* record with an entity-kind tag the table does not know
DocGood ==
    << [name |-> "em", external_url |-> <<".", "module", "em.html">>, obj |-> "module",
        functions |-> List(<< [name |-> "ef",
                               external_url |-> <<".", "proc", "ef.html">>,
                               obj |-> "proc", proctype |-> "Function"] >>)] >>
DocUnknownTag ==
    << [name |-> "wm", external_url |-> <<".", "module", "wm.html">>, obj |-> "module",
        variables |-> List(<< [name |-> "wv", external_url |-> <<>>,
                               obj |-> "variable"],
                              [name |-> "ww", external_url |-> <<>>,
                               obj |-> "widget"],
                              [name |-> "wx", external_url |-> <<>>,
                               obj |-> "variable"] >>)],
       [name |-> "wn", external_url |-> <<".", "module", "wn.html">>, obj |-> "module"] >>

SrcA == <<"a", " ", "=", " ", "http://", "a.org", "/">>
SrcB == <<"b", "=", "https://", "b.org">>
SrcLocal == <<"local", "=", "out">>
SrcClash == <<"a", "=", "elsewhere">>
UrlDefs == {SrcA, SrcB, SrcLocal, SrcClash}
OutPath == <<"out">>

\* the number of entries in the project's lists of external entities
Listed(lists) ==
    Len(lists["extModules"]) + Len(lists["extInterfaces"]) + Len(lists["extTypes"])
    + Len(lists["extVariables"]) + Len(lists["extProcedures"])
    + Len(lists["extBoundProcs"])

\* what fetching the document of a source can give: the network may fail,
\* serve bytes that are no UTF-8 text or text that is no JSON, or serve a
\* document; a local read gives the file, or fails when there is none
Responses(remote, url) ==
    IF remote
    THEN {Raise("URLError"), Raise("UnicodeDecodeError"), Raise("JSONDecodeError"),
          Ret(json_dumps(DocGood)), Ret(json_dumps(DocUnknownTag))}
    ELSE IF Append(url, "modules.json") \in DOMAIN files
         THEN {Ret(files[Append(url, "modules.json")])}
         ELSE {Raise("FileNotFoundError")}

ExtInit ==
    /\ modules \in NoRepeat(ModulePool, MaxModules)
    /\ external \in NoRepeat(UrlDefs, MaxSources)
    /\ files = <<>>
    /\ extHeap = <<>>
    /\ extLists = [l \in ProjectLists |-> <<>>]
    /\ extLog = <<>>
    /\ pcExt = "idle"
    /\ srcIdx = 0
    /\ extExc = ""
    /\ imported = <<>>

ExtIdle ==
    /\ modules = <<>>
    /\ external = <<>>
    /\ files = <<>>
    /\ extHeap = <<>>
    /\ extLists = [l \in ProjectLists |-> <<>>]
    /\ extLog = <<>>
    /\ pcExt = "idle"
    /\ srcIdx = 0
    /\ extExc = ""
    /\ imported = <<>>

\* external(project, make=True, path)
ExternalMake ==
    /\ pcExt = "idle"
    /\ LET extModules == [i \in 1..Len(modules) |-> obj2dict(modules[i])]
       IN  files' = (Append(resolve(OutPath), "modules.json") :> json_dumps(extModules))
                    @@ files
    /\ UNCHANGED <<modules, external, extHeap, extLists, extLog, pcExt, srcIdx, extExc,
                   imported, scanVars, macroVars, linkVars>>

\* external(project, make=False): the call, up to its loop
ExternalBegin ==
    /\ pcExt = "idle"
    /\ pcExt' = "loop"
    /\ srcIdx' = 1
    /\ UNCHANGED <<modules, external, files, extHeap, extLists, extLog, extExc,
                   imported, scanVars, macroVars, linkVars>>

\* one turn of the loop over project.external
ImportSource ==
    /\ pcExt = "loop"
    /\ srcIdx <= Len(external)
    /\ LET urldef == external[srcIdx]
           reg == register_macro(urldef, MACRO_DICT)
       IN  /\ Registered(urldef, reg)
           /\ IF reg.res.tag = "raise"
              THEN /\ pcExt' = "raised"
                   /\ extExc' = reg.res.exc
                   /\ UNCHANGED <<extHeap, extLists, extLog, srcIdx, imported>>
              ELSE LET remote == is_remote(reg.res.val[1])
                       url == IF remote THEN with_slash(reg.res.val[1])
                              ELSE resolve(reg.res.val[1])
                   IN  \E resp \in Responses(remote, url) :
                         LET failed == resp.tag = "raise"
                             extModules == IF failed THEN <<>> ELSE json_loads(resp.val)
                             st == import_modules(extModules, url, remote,
                                       [heap |-> extHeap, lists |-> extLists, exc |-> ""])
                             entry == [fetch |-> IF failed THEN resp.exc ELSE "ok",
                                       remote |-> remote,
                                       doc |-> extModules,
                                       before |-> Len(extHeap),
                                       after |-> Len(extHeap'),
                                       listed |-> Listed(extLists') - Listed(extLists),
                                       printed |-> Len(extLog') - Len(extLog)]
                         IN  IF failed /\ ~caught(resp.exc)
                             THEN /\ pcExt' = "raised"
                                  /\ extExc' = resp.exc
                                  /\ UNCHANGED <<extHeap, extLists, extLog, srcIdx>>
                                  /\ imported' = Append(imported, entry)
                             ELSE /\ extLog' = IF failed
                                               THEN Append(extLog, [url |-> url,
                                                                    reason |-> resp.exc])
                                               ELSE extLog
                                  /\ extHeap' = st.heap
                                  /\ extLists' = st.lists
                                  /\ IF st.exc # ""
                                     THEN /\ pcExt' = "raised"
                                          /\ extExc' = st.exc
                                          /\ srcIdx' = srcIdx
                                     ELSE /\ pcExt' = "loop"
                                          /\ extExc' = ""
                                          /\ srcIdx' = srcIdx + 1
                                  /\ imported' = Append(imported, entry)
    /\ UNCHANGED <<modules, external, files, scanVars, linkVars>>

\* the loop is through: external returns
ExternalReturn ==
    /\ pcExt = "loop"
    /\ srcIdx > Len(external)
    /\ pcExt' = "done"
    /\ UNCHANGED <<modules, external, files, extHeap, extLists, extLog, srcIdx, extExc,
                   imported, scanVars, macroVars, linkVars>>

ExtNext == ExternalMake \/ ExternalBegin \/ ImportSource \/ ExternalReturn

(***************************************************************************)
(* The scanners' inputs and the calls.                                     *)
(***************************************************************************)
ScanChars == {"(", ")", "[", "]", ",", "a", "'", "\"", "1"}
ExampleLine == <<"f", "(", "a", ",", "b", ")", ",", "g", "(", "c", ")">>
ScanLines == SeqsUpTo(ScanChars, MaxLen) \cup {ExampleLine}
Separators == {<<",">>, <<"a">>, <<"(">>, <<>>, <<",", ",">>}
Levels == 0 .. MaxLevel

ScanInit ==
    /\ line \in ScanLines
    /\ sep = <<>>
    /\ retlevel = 0
    /\ retblevel = 0
    /\ scanOp = "none"
    /\ scanResult = NoResult

ScanIdle ==
    /\ line = <<>>
    /\ sep = <<>>
    /\ retlevel = 0
    /\ retblevel = 0
    /\ scanOp = "none"
    /\ scanResult = NoResult

CallGetParens ==
    /\ scanOp = "none"
    /\ \E rl \in Levels, rb \in Levels :
          /\ retlevel' = rl
          /\ retblevel' = rb
          /\ scanResult' = get_parens(line, rl, rb)
    /\ scanOp' = "get_parens"
    /\ UNCHANGED <<line, sep, macroVars, linkVars, extVars>>

CallParenSplit ==
    /\ scanOp = "none"
    /\ \E sp \in Separators :
          /\ sep' = sp
          /\ scanResult' = paren_split(sp, line)
    /\ scanOp' = "paren_split"
    /\ UNCHANGED <<line, retlevel, retblevel, macroVars, linkVars, extVars>>

CallQuoteSplit ==
    /\ scanOp = "none"
    /\ \E sp \in Separators :
          /\ sep' = sp
          /\ scanResult' = quote_split(sp, line)
    /\ scanOp' = "quote_split"
    /\ UNCHANGED <<line, retlevel, retblevel, macroVars, linkVars, extVars>>

ScanNext == CallGetParens \/ CallParenSplit \/ CallQuoteSplit

\* each specification runs one part of the program, the others at rest
InitScan == ScanInit /\ MacroIdle /\ LinkIdle /\ ExtIdle
InitMacro == MacroInit /\ ScanIdle /\ LinkIdle /\ ExtIdle
InitLink == LinkInit /\ ScanIdle /\ MacroIdle /\ ExtIdle
InitExt == ExtInit /\ ScanIdle /\ MacroInit /\ LinkIdle

SpecScan == InitScan /\ [][ScanNext]_vars

SpecMacro == InitMacro /\ [][MacroNext]_vars

SpecLink == InitLink /\ [][LinkNext]_vars

SpecExt == InitExt /\ [][ExtNext]_vars

(***************************************************************************)
(* Reference notions for the scanners' properties.                         *)
(***************************************************************************)
Count(s, c) == Cardinality({i \in 1..Len(s) : s[i] = c})
ParenDepth(s) == Count(s, "(") - Count(s, ")")
BracketDepth(s) == Count(s, "[") - Count(s, "]")
IsPrefix(p, s) == Len(p) <= Len(s) /\ SubSeq(s, 1, Len(p)) = p
IsTerminator(c) == isalpha(c) \/ c \in {"_", ":", ",", " "}

\* the scan of ln can stop after k characters with both counters on target
StopsAt(ln, k, rl, rb) ==
    /\ ParenDepth(SubSeq(ln, 1, k)) = rl
    /\ BracketDepth(SubSeq(ln, 1, k)) = rb
    /\ (k = Len(ln) \/ IsTerminator(ln[k + 1]))

RECURSIVE Join(_, _)
Join(segments, c) ==
    IF Len(segments) = 0 THEN <<>>
    ELSE IF Len(segments) = 1 THEN segments[1]
    ELSE segments[1] \o <<c>> \o Join(Tail(segments), c)

\* C8: joining the segments of paren_split (split_on) and of quote_split
\* (split_outside_quotes) with the one-character separator gives back the
\* string, and split_on(',', "f(a,b),g(c)") is ["f(a,b)", "g(c)"].
SplitJoinRoundTrip ==
    /\ (scanOp \in {"paren_split", "quote_split"} /\ Len(sep) = 1) =>
          /\ scanResult.tag = "ret"
          /\ Join(scanResult.val, sep[1]) = line
    /\ (scanOp = "paren_split" /\ line = ExampleLine /\ sep = <<",">>) =>
          scanResult = Ret(<< <<"f", "(", "a", ",", "b", ")">>, <<"g", "(", "c", ")">> >>)

WitnessSplitJoin ==
    /\ scanOp = "quote_split"
    /\ sep = <<",">>
    /\ line = <<"'", ",", "'", ",">>
    /\ scanResult = Ret(<< <<"'", ",", "'">>, <<>> >>)

\* what C9 says of a call that returned: a prefix of the input, with the
\* requested net depths, that stops short of the terminating character
ReturnsBalancedPrefix ==
    scanResult.tag = "ret" =>
        /\ IsPrefix(scanResult.val, line)
        /\ ParenDepth(scanResult.val) = retlevel
        /\ BracketDepth(scanResult.val) = retblevel
        /\ Len(scanResult.val) < Len(line) => IsTerminator(line[Len(scanResult.val) + 1])

\* what C9 says of an input exhausted before both counters reach their targets
ExhaustedRaises ==
    (\A k \in 0..Len(line) : ~StopsAt(line, k, retlevel, retblevel)) =>
        scanResult = Raise("RuntimeError")

\* C9 as stated: get_parens returns a prefix of its input whose net
\* parenthesis and bracket depths equal the targets, without the terminating
\* character, and raises whenever the input is exhausted before the targets
\* are reached.
BalancedOrRaisesAlways ==
    scanOp = "get_parens" => (ReturnsBalancedPrefix /\ ExhaustedRaises)

\* C9 amended: the same for every non-empty input; the empty input is
\* returned as it is, whatever the targets.
BalancedOrRaisesNonEmpty ==
    scanOp = "get_parens" =>
        IF line = <<>> THEN scanResult = Ret(<<>>)
        ELSE ReturnsBalancedPrefix /\ ExhaustedRaises

WitnessBalanced ==
    /\ scanOp = "get_parens"
    /\ line = <<"(", "a", ")", ",">>
    /\ retlevel = 0
    /\ scanResult = Ret(<<"(", "a", ")">>)

(***************************************************************************)
(* Reference notions for the link properties: what the resolution          *)
(* algorithm is to find, said without the search lists of the code.        *)
(***************************************************************************)
\* the place of a collection in a table: where a rule first names it
FirstNamed(table, c) ==
    CHOOSE i \in 1..Len(table) :
        table[i][2] = c /\ \A j \in 1..(i - 1) : table[j][2] # c

Recognized(table, classifier) ==
    classifier = None \/ \E i \in 1..Len(table) : table[i][1] = lower(classifier)

\* the collections a classifier selects among those there are
Selected(table, classifier, there) ==
    {c \in there :
        \E i \in 1..Len(table) :
            table[i][2] = c /\ (classifier = None \/ table[i][1] = lower(classifier))}

\* the places <<collection, position>> of the entities named name
Candidates(table, classifier, coll, name) ==
    {<<c, p>> \in Selected(table, classifier, DOMAIN coll) \X (1..3) :
        p <= Len(coll[c]) /\ lower(coll[c][p].name) = lower(name)}

\* the candidate that comes first in table order, then in collection order
First(table, cands) ==
    CHOOSE x \in cands :
        \A y \in cands :
            \/ FirstNamed(table, x[1]) < FirstNamed(table, y[1])
            \/ (x[1] = y[1] /\ x[2] <= y[2])

PrimaryCandidates == Candidates(LINK_TYPES, match.g2, project, match.g1)
PrimaryFound == Recognized(LINK_TYPES, match.g2) /\ PrimaryCandidates # {}
PrimaryEntity ==
    LET x == First(LINK_TYPES, PrimaryCandidates) IN project[x[1]][x[2]]

SubCandidates == Candidates(SUBLINK_TYPES, match.g4, PrimaryEntity.attrs, match.g3)
SubEntity ==
    LET x == First(SUBLINK_TYPES, SubCandidates) IN PrimaryEntity.attrs[x[1]][x[2]]

\* the sub classifier, if given, names a collection the matched entity has
Possessed ==
    match.g4 = None \/ Selected(SUBLINK_TYPES, match.g4, DOMAIN PrimaryEntity.attrs) # {}

Href(url, label) == <<"<a href=\"">> \o url \o <<"\">", label, "</a>">>

\* C4 as stated: a primary or sub classifier that is given and is not in
\* its table, or a sub classifier naming a collection the matched entity
\* lacks, leaves the markup as it was and prints a warning.
BadClassifierKeepsMarkup ==
    (/\ linkOp = "convert_link"
     /\ \/ ~Recognized(LINK_TYPES, match.g2)
        \/ ~Recognized(SUBLINK_TYPES, match.g4)
        \/ (PrimaryFound /\ match.g3 # None /\ ~Possessed))
    => (linkOut = group0(match) /\ Len(linkLog) = 1)

\* C4 amended: an unrecognized primary classifier, or, once the primary
\* name is found, a sub classifier that is not in its table or names a
\* collection the matched entity lacks, leaves the markup as it was and
\* prints one warning; when the primary name is not found the sub
\* classifier is not looked at and the link becomes <a>NAME</a>.
BadClassifierKeepsMarkupWhenFound ==
    /\ (/\ linkOp = "convert_link"
        /\ \/ ~Recognized(LINK_TYPES, match.g2)
           \/ (/\ PrimaryFound
               /\ match.g3 # None
               /\ (~Recognized(SUBLINK_TYPES, match.g4) \/ ~Possessed)))
       => (linkOut = group0(match) /\ Len(linkLog) = 1)
    /\ (/\ linkOp = "convert_link"
        /\ Recognized(LINK_TYPES, match.g2)
        /\ ~PrimaryFound)
       => linkOut = <<"<a>", match.g1, "</a>">>

WitnessBadSubClassifier ==
    /\ linkOp = "convert_link"
    /\ match = [g1 |-> "MYTYPE", g2 |-> "module", g3 |-> "MYVAR", g4 |-> "Bound"]
    /\ project["modules"] = <<ModuleEntity>>
    /\ linkOut = <<"[[", "MYTYPE", "(", "module", ")", ":", "MYVAR", "(", "Bound", ")", "]]">>
    /\ Len(linkLog) = 1

\* the steps of the resolution that fail: at most one, as a failed step
\* ends the resolution or leaves no later step to try
FailedSteps ==
    IF ~Recognized(LINK_TYPES, match.g2) THEN 1
    ELSE IF PrimaryCandidates = {} THEN 1
    ELSE IF match.g3 = None THEN 0
    ELSE IF ~Recognized(SUBLINK_TYPES, match.g4) \/ ~Possessed THEN 1
    ELSE IF SubCandidates = {} THEN 1
    ELSE 0

\* C5: convert_link always returns a text, the raw markup or an <a href>
\* tag or <a>NAME</a>, and prints one line per failed step and none when
\* every step succeeds; [[ghost]], a name in no collection, becomes
\* <a>ghost</a> with one "not found" line.
AlwaysResolvesToSomeText ==
    linkOp = "convert_link" =>
        /\ \/ linkOut = group0(match)
           \/ linkOut = <<"<a>", match.g1, "</a>">>
           \/ (/\ Len(linkOut) >= 5
               /\ linkOut[1] = "<a href=\""
               /\ linkOut[Len(linkOut) - 2] = "\">"
               /\ linkOut[Len(linkOut)] = "</a>")
        /\ Len(linkLog) = FailedSteps
        /\ \A i \in 1..Len(linkLog) : linkLog[i].link = group0(match)
        /\ (/\ match.g2 = None
            /\ match.g3 = None
            /\ \A c \in Collections : \A p \in 1..Len(project[c]) :
                   lower(project[c][p].name) # lower(match.g1))
           => /\ linkOut = <<"<a>", match.g1, "</a>">>
              /\ Len(linkLog) = 1
              /\ linkLog[1].kind = "not found"

WitnessGhost ==
    /\ linkOp = "convert_link"
    /\ match = [g1 |-> "ghost", g2 |-> None, g3 |-> None, g4 |-> None]
    /\ project["types"] = <<TypeEntity>>
    /\ linkOut = <<"<a>", "ghost", "</a>">>
    /\ Len(linkLog) = 1

\* what C6 says the link becomes once the primary name is found
ResolvesToFirstMatch ==
    IF match.g3 # None /\ SubCandidates # {}
    THEN linkOut = Href(<<PrimaryEntity.url, "#", SubEntity.anchor>>, SubEntity.name)
    ELSE linkOut = Href(<<PrimaryEntity.url>>, PrimaryEntity.name)

\* C6 as stated: with recognized or absent classifiers each level resolves
\* to the first entity in table order whose name matches without regard to
\* case; primary and sub-name matched give <a href="URL#ANCHOR">SUB</a>, a
\* matched primary with no sub-name or none matching gives
\* <a href="URL">PRIMARY</a>.
FirstMatchWins ==
    (/\ linkOp = "convert_link"
     /\ Recognized(LINK_TYPES, match.g2)
     /\ Recognized(SUBLINK_TYPES, match.g4)
     /\ PrimaryFound)
    => ResolvesToFirstMatch

\* C6 amended: the same, for a sub classifier that names a collection the
\* matched entity possesses.
FirstMatchWinsWhenPossessed ==
    (/\ linkOp = "convert_link"
     /\ Recognized(LINK_TYPES, match.g2)
     /\ Recognized(SUBLINK_TYPES, match.g4)
     /\ PrimaryFound
     /\ Possessed)
    => ResolvesToFirstMatch

WitnessSubLink ==
    /\ linkOp = "convert_link"
    /\ match = [g1 |-> "MYTYPE", g2 |-> "Type", g3 |-> "MYVAR", g4 |-> "variable"]
    /\ project["types"] = <<TypeEntity>>
    /\ linkOut = <<"<a href=\"", "type/mytype.html", "#", "variable-myvar", "\">",
                   "MyVar", "</a>">>
    /\ linkLog = <<>>

(***************************************************************************)
(* The interchange's properties.  imported[i] is the history of the i-th   *)
(* source of project.external: how its fetch ended, the document read, and *)
(* the proxies, list entries and messages its turn of the loop added.      *)
(***************************************************************************)
FetchErrors == {"URLError", "JSONDecodeError"}

RECURSIVE SumSeq(_)
SumSeq(ns) == IF ns = <<>> THEN 0 ELSE Head(ns) + SumSeq(Tail(ns))

\* the items of a collection, in order; a scalar has none
ItemsOf(v) ==
    IF "kind" \notin DOMAIN v THEN <<>>
    ELSE IF v.kind = "list" THEN v.items
    ELSE IF v.kind = "dict" THEN [j \in 1..Len(v.items) |-> v.items[j][2]]
    ELSE <<>>

\* the children of an entity or record in the collections that are carried over
RECURSIVE ChildrenFrom(_, _)
ChildrenFrom(e, k) ==
    IF k > Len(ATTRIBUTES) THEN <<>>
    ELSE (IF ATTRIBUTES[k] \in DOMAIN e THEN ItemsOf(e[ATTRIBUTES[k]]) ELSE <<>>)
         \o ChildrenFrom(e, k + 1)

Children(e) == ChildrenFrom(e, 1)

NotNull(r) == r # Null

KnownTags ==
    {"module", "interface", "type", "variable", "function", "subroutine",
     "boundprocedure"}

TagOf(r) == lower(IF "proctype" \in DOMAIN r THEN r.proctype ELSE r.obj)

\* a record of a document, or one below it, has a tag that is not known
RECURSIVE HasUnknownTag(_)
HasUnknownTag(r) ==
    \/ TagOf(r) \notin KnownTags
    \/ LET cs == SelectSeq(Children(r), NotNull)
       IN  \E j \in 1..Len(cs) : HasUnknownTag(cs[j])

\* the records of a document outside the subtrees of records of unknown tag
RECURSIVE KnownRecords(_)
KnownRecords(r) ==
    IF TagOf(r) \notin KnownTags THEN 0
    ELSE LET cs == SelectSeq(Children(r), NotNull)
         IN  1 + SumSeq([j \in 1..Len(cs) |-> KnownRecords(cs[j])])

DocHasUnknownTag(doc) == \E k \in 1..Len(doc) : HasUnknownTag(doc[k])
DocKnownRecords(doc) == SumSeq([k \in 1..Len(doc) |-> KnownRecords(doc[k])])

StoppedAt(i) == pcExt = "raised" /\ srcIdx = i

UnknownTagIsolated ==
    \A i \in 1..Len(imported) :
        (imported[i].fetch = "ok" /\ DocHasUnknownTag(imported[i].doc)) =>
            /\ ~StoppedAt(i)
            /\ imported[i].after - imported[i].before = DocKnownRecords(imported[i].doc)

(***************************************************************************)
(* The round trip: the source read is the document the project exported.   *)
(***************************************************************************)
IsProxy(e) == "external_url" \in DOMAIN e
NotProxy(e) == ~IsProxy(e)

\* the proxy variant that stands for an entity of a kind
KindOf(e) ==
    CASE e.obj = "module" -> "ExternalModule"
      [] e.obj = "type" -> "ExternalType"
      [] e.obj = "variable" -> "ExternalVariable"
      [] e.obj = "boundprocedure" -> "ExternalBoundProcedure"
      [] e.obj = "interface" -> "ExternalInterface"
      [] e.obj = "proc" /\ e.proctype = "Function" -> "ExternalFunction"
      [] e.obj = "proc" /\ e.proctype = "Subroutine" -> "ExternalSubroutine"

\* the entities of a graph, each once
RECURSIVE Reachable(_)
Reachable(e) ==
    {e} \cup UNION {Reachable(Children(e)[j]) : j \in 1..Len(Children(e))}

\* the places of a graph where an entity of the project is listed
RECURSIVE Listings(_)
Listings(e) ==
    LET cs == SelectSeq(Children(e), NotProxy)
    IN  1 + SumSeq([j \in 1..Len(cs) |-> Listings(cs[j])])

\* proxy id has the name and kind of e, and for each collection of e that is
\* carried over a collection of the same shape whose members mirror those of
\* e (all of them, or those that are no external proxies), in order and under
\* the same keys
RECURSIVE Mirrors(_, _, _)
Mirrors(e, id, all) ==
    LET extObj == extHeap[id]
        Keep(x) == all \/ NotProxy(x)
    IN
    /\ extObj.name = e.name
    /\ extObj.cls = KindOf(e)
    /\ \A k \in 1..Len(ATTRIBUTES) :
         LET a == ATTRIBUTES[k] IN
         a \in DOMAIN e =>
            /\ a \in DOMAIN extObj.attrs
            /\ extObj.attrs[a].kind = (IF e[a].kind = "scalar" THEN "str" ELSE e[a].kind)
            /\ e[a].kind = "scalar" => extObj.attrs[a].val = e[a].str
            /\ e[a].kind = "list" =>
                 LET kept == SelectSeq(e[a].items, Keep)
                     ids == extObj.attrs[a].items
                 IN  /\ Len(ids) = Len(kept)
                     /\ \A j \in 1..Len(kept) :
                          j <= Len(ids) => Mirrors(kept[j], ids[j], all)
            /\ e[a].kind = "dict" =>
                 LET KeepPair(kv) == Keep(kv[2])
                     kept == SelectSeq(e[a].items, KeepPair)
                     ids == extObj.attrs[a].items
                 IN  /\ Len(ids) = Len(kept)
                     /\ \A j \in 1..Len(kept) :
                          j <= Len(ids) =>
                             /\ ids[j][1] = kept[j][1]
                             /\ Mirrors(kept[j][2], ids[j][2], all)

\* the i-th source was the project's own export, read as a local source
RoundTripped(i) ==
    /\ i \in 1..Len(imported)
    /\ imported[i].fetch = "ok"
    /\ ~imported[i].remote

\* the proxies made for the top-level records of the i-th source, in order
Tops(i) ==
    LET IsTop(id) == extHeap[id].parent = 0
    IN  SelectSeq([k \in 1..(imported[i].after - imported[i].before) |->
                      imported[i].before + k], IsTop)

MirrorsModules(i, all) ==
    /\ ~StoppedAt(i)
    /\ Len(Tops(i)) = Len(modules)
    /\ \A k \in 1..Len(modules) :
         k <= Len(Tops(i)) => Mirrors(modules[k], Tops(i)[k], all)

\* C7, as stated: export and then import as a local source gives proxies whose
\* names, kinds and child-collection shapes match the original entities, one
\* proxy per original entity.
RoundTripOnePerEntity ==
    \A i \in 1..Len(imported) :
        RoundTripped(i) =>
           /\ MirrorsModules(i, TRUE)
           /\ imported[i].after - imported[i].before
                 = Cardinality(UNION {Reachable(modules[k]) : k \in 1..Len(modules)})

\* C7: export and then import as a local source gives, for every place where
\* an entity of the project is listed in a carried-over collection below a
\* module, one proxy with the name and kind of that entity, whose carried-over
\* collections have the shape of the entity's without the members that are
\* themselves external proxies.
RoundTripOnePerListing ==
    \A i \in 1..Len(imported) :
        RoundTripped(i) =>
           /\ MirrorsModules(i, FALSE)
           /\ imported[i].after - imported[i].before
                 = SumSeq([k \in 1..Len(modules) |-> Listings(modules[k])])

\* a module that lists a public function twice has been round-tripped
WitnessRoundTrip ==
    \E i \in 1..Len(imported) :
        /\ RoundTripped(i)
        /\ modules # <<>>
        /\ \E k \in 1..Len(modules) : modules[k].pub_procs.items # <<>>
        /\ imported[i].after - imported[i].before >= 3

==============================================================================
